---- MODULE Spec2Model ----
(***************************************************************************)
(* Model of src/unreal_window_manager.py: the UnrealWindowManager object,  *)
(* the main thread that runs wait_and_position (and manual_position), and  *)
(* the HTTP request threads of create_http_server (reorder, status,        *)
(* health).                                                                *)
(*                                                                         *)
(* Numbers that arrive in a JSON body are kept in tenths (Num(3) = 30 is   *)
(* the integer 3, 15 is the JSON number 1.5): Python compares ints and     *)
(* floats numerically, and request.get_json() delivers whatever number the *)
(* caller sent, so an order is a list of such numbers.  Roles, slot        *)
(* indices and the keys of window_handles are plain integers.              *)
(*                                                                         *)
(* The windowing system is outside the program and tells it nothing: a     *)
(* window may appear or die between any two steps.  What the program sees  *)
(* of it is therefore drawn afresh at every OS call: the set of visible    *)
(* preview windows at an enumeration, whether a handle is still alive at a *)
(* GetWindowText, what the OS does in an attempt of position_window.       *)
(*                                                                         *)
(* The model is of the manager object and its threads: main() calls        *)
(* wait_and_position and then only sleeps; manual_position is the          *)
(* re-trigger the object offers to whoever holds it, and the request       *)
(* threads serve for as long as the object lives.                          *)
(***************************************************************************)
EXTENDS Integers, Sequences, FiniteSets, TLC

VARIABLES
    window_handles,  \* self.window_handles: role index (1..4) -> hwnd
    current_order,   \* self.current_order: list of four numbers (tenths)
    lock,            \* self.lock: the thread holding it, or Free
    pc,              \* position of every thread in its code
    windows,         \* main thread: `windows` passed to position_all_windows
    last_count,      \* main thread: local last_count of wait_and_position
    ticks,           \* main thread: sleeps of check_interval since start_time
                     \* (both locals are 0 again once the loop is left)
    caller,          \* main thread: which method called position_all_windows
    returned,        \* main thread: the latest method to end, and how
    new_order,       \* per HTTP thread: local new_order of reorder_windows
    pos_idx,         \* per thread: loop index of its placement loop
    success_count,   \* per thread: local success_count of its pass
    resp,            \* per HTTP thread: the response being sent
    req,             \* log, per HTTP thread: the request being served
    changed,         \* log, per HTTP thread: its request has written an
                     \*      order to current_order that was not there
    calls,           \* log: the position_window calls of the latest pass
    pass_by,         \* log: the thread that runs or ran the latest pass
    any_call,        \* log: position_window has been called at least once
    saw_all,         \* log: a poll of wait_and_position classified 4 roles
    detected,        \* log: a detection pass has stored handles
    last_arg,        \* log: new_order of the latest reorder pass, <<>> once
                     \*      a detection pass has run after it
    prev,            \* log: order, handle map and calls left by the pass
                     \*      before the running or latest reorder pass
    repeat,          \* log: that reorder pass has the new_order of a
                     \*      reorder pass that ran directly before it
    last_ok,         \* log: what the latest position_window call of the
                     \*      running pass returned
    poll,            \* log: the windows visible at the latest poll of the
                     \*      running wait_and_position, and the keys found
    had,             \* log: the roles window_handles had entries for when
                     \*      the running detection pass began
    reordered,       \* log: a reorder has written current_order
    pw,              \* a call of position_window on its own: its
                     \*      arguments and, once it has returned, its result
    enum             \* a call of find_unreal_windows on its own: the
                     \*      desktop it enumerates and, once it has
                     \*      returned, the dictionary it returns

shared == <<window_handles, current_order, lock>>
mainVars == <<windows, last_count, ticks, caller, returned>>
httpVars == <<new_order, resp, req, changed>>
passVars == <<pos_idx, success_count>>
passLog == <<calls, pass_by, any_call>>
idemLog == <<last_arg, prev, repeat>>
mainLog == <<saw_all, detected>>

vars ==
    <<shared, pc, mainVars, httpVars, passVars, passLog, mainLog, idemLog,
      last_ok, poll, had, reordered, pw, enum>>

----------------------------------------------------------------------------
(* Bounds of the model *)

\* wait_and_position's timeout, in sleeps of check_interval
\* (main() passes 120 s at 0.5 s per poll)
MaxPolls == 2

\* the largest `retries` position_window is called with (its default is 3)
MaxRetries == 3

\* the most windows on the desktop of a find_unreal_windows call on its own
MaxWindows == 3

----------------------------------------------------------------------------
(* Static configuration: UnrealWindowManager.__init__ *)

Num(n) == 10 * n
IsInt(v) == v % 10 = 0
Idx(v) == v \div 10

Free == "free"
Main == "main"
Http == {"h1", "h2"}
Threads == {Main} \cup Http

Roles == 1..4

window_keys == <<"Server", "Client 1", "Client 2", "Client 3">>

positions ==
    << <<0, 0, 480, 800>>, <<480, 0, 480, 800>>,
       <<960, 0, 480, 800>>, <<1440, 0, 480, 800>> >>

DefaultOrder == <<Num(4), Num(2), Num(3), Num(1)>>

Retries == 3

Tolerance == 10

\* the hwnd of the preview window whose title names window_keys[r]
Hwnd(r) == 100 + r
Hwnds == {Hwnd(r) : r \in Roles}
KeyOf(h) == window_keys[h - 100]

NoWindows == [k \in {} |-> 0]

Range(seq) == {seq[i] : i \in DOMAIN seq}

----------------------------------------------------------------------------
(* The windowing system *)

\* The sets of preview windows an enumeration may find visible.
VisibleSets == SUBSET Hwnds

\* Of these, the ones the concurrent program is run with: no window, the
\* server and one client, all four.
TestVisible == {{}, {Hwnd(1), Hwnd(2)}, Hwnds}

\* A window title, as far as the tests of lines 61-70 read it: whether it
\* contains each of the two markers, and which of the role names it contains.
PreviewTitle(names) == [preview |-> TRUE, netmode |-> TRUE, names |-> names]

\* The other top-level windows of the desktop: 105 names the server and a
\* client, 106 two clients, 107 no role; 108, 109 and 110 lack a marker;
\* 111 is a second window of "Client 3".
Others == 105..111
Windows == Hwnds \cup Others

Title(h) ==
    CASE h \in Hwnds -> PreviewTitle({KeyOf(h)})
      [] h = 105 -> PreviewTitle({"Server", "Client 1"})
      [] h = 106 -> PreviewTitle({"Client 2", "Client 3"})
      [] h = 107 -> PreviewTitle({})
      [] h = 108 -> [preview |-> TRUE, netmode |-> FALSE, names |-> {"Server"}]
      [] h = 109 -> [preview |-> FALSE, netmode |-> TRUE,
                     names |-> {"Client 1"}]
      [] h = 110 -> [preview |-> FALSE, netmode |-> FALSE,
                     names |-> {"Client 3"}]
      [] h = 111 -> PreviewTitle({"Client 3"})

NoRole == "none"

\* a classifier that asks for the "Preview" marker only
ClassifyByPreview(title) ==
    IF title.preview
    THEN IF "Server" \in title.names THEN "Server"
         ELSE IF "Client 1" \in title.names THEN "Client 1"
         ELSE IF "Client 2" \in title.names THEN "Client 2"
         ELSE IF "Client 3" \in title.names THEN "Client 3"
         ELSE NoRole
    ELSE NoRole

\* lines 61-70: the marker test and the if/elif chain over the role names
Classify(title) ==
    IF title.preview /\ title.netmode
    THEN IF "Server" \in title.names THEN "Server"
         ELSE IF "Client 1" \in title.names THEN "Client 1"
         ELSE IF "Client 2" \in title.names THEN "Client 2"
         ELSE IF "Client 3" \in title.names THEN "Client 3"
         ELSE NoRole
    ELSE NoRole

\* lines 55-73: the callback, called with one window [hwnd, visible]; a
\* classified window is stored under its role, over what was stored there.
enum_callback(w, results) ==
    LET key == Classify(Title(w.hwnd))
    IN  IF w.visible /\ key # NoRole
        THEN [k \in DOMAIN results \cup {key} |->
                 IF k = key THEN w.hwnd ELSE results[k]]
        ELSE results

\* line 75: the callback is called with each window of the desktop, in the
\* order the OS enumerates them
RECURSIVE EnumWindows(_, _)
EnumWindows(desktop, results) ==
    IF desktop = <<>>
    THEN results
    ELSE EnumWindows(Tail(desktop), enum_callback(Head(desktop), results))

\* The desktop on which exactly the preview windows of `visible' are shown.
\* They have four different roles, so the order of their enumeration does
\* not matter to the result.
RECURSIVE Shown(_)
Shown(visible) ==
    IF visible = {}
    THEN <<>>
    ELSE LET h == CHOOSE g \in visible : \A f \in visible : g <= f
         IN  <<[hwnd |-> h, visible |-> TRUE]>> \o Shown(visible \ {h})

\* an enumeration that keeps one window only
find_lowest_window(desktop) ==
    IF desktop = <<>>
    THEN NoWindows
    ELSE EnumWindows(<<Head(desktop)>>, NoWindows)

\* find_unreal_windows (lines 46-76): the enumeration starts from an empty
\* dictionary and returns what the callback stored.
find_unreal_windows(desktop) ==
    EnumWindows(desktop, NoWindows)

Count(found) == Cardinality(DOMAIN found)

----------------------------------------------------------------------------
(* position_window *)

\* The OS calls of one attempt, in the order of lines 94-187: the calls that
\* show the window (94-99), the calls that strip its decoration (the style
\* bits, 103 and 121, the extended style bits, 125 and 131, the forced frame
\* change, 135), the two calls that set its geometry (147, 155), the clip of
\* the title bar (164-181) and the read-back of the origin (187).
AttemptCalls ==
    << "IsIconic", "ShowWindow", "GetStyle", "SetStyle", "GetExStyle",
       "SetExStyle", "FrameChanged", "SetPosTopmost", "SetPosNoTopmost",
       "SetWindowRgn", "GetWindowRect" >>

\* lines 164-181: the clip has a try of its own
Guarded == {"SetWindowRgn"}

\* What the OS does in one attempt: the first OS call of the attempt that
\* raises ("none" when none does) and, when the attempt gets as far as the
\* read-back, how far the origin read back is from (x, y).  A call of
\* OsCalls raises out of the outer try.
OsCalls == {AttemptCalls[i] : i \in DOMAIN AttemptCalls} \ Guarded
Offsets == {-11, 0, 10, 11}
Raising == [raises : OsCalls, dx : {0}, dy : {0}]
Clipped == [raises : Guarded, dx : Offsets, dy : {0}]
AttemptOutcomes ==
    [raises : {"none"}, dx : Offsets, dy : Offsets] \cup Raising \cup Clipped

\* the OS calls an attempt makes: all of them, or those up to the one that
\* raises out of the outer try
CallsMade(o) ==
    IF o.raises \in OsCalls
    THEN SubSeq(AttemptCalls, 1,
                CHOOSE i \in DOMAIN AttemptCalls : AttemptCalls[i] = o.raises)
    ELSE AttemptCalls

Abs(n) == IF n < 0 THEN -n ELSE n

\* a test that looks at one axis only
WithinToleranceOfX(o) == Abs(o.dx) <= Tolerance

WithinTolerance(o) == Abs(o.dx) <= Tolerance /\ Abs(o.dy) <= Tolerance

Returns(ok, made) == [ok |-> ok, made |-> made]

\* a loop that goes on after an attempt has verified the origin
RECURSIVE position_window_on(_, _, _)
position_window_on(attempt, retries, oracle) ==
    IF attempt >= retries
    THEN Returns(\E i \in 1..retries :
                     oracle[i].raises \notin OsCalls
                         /\ Abs(oracle[i].dx) <= Tolerance
                         /\ Abs(oracle[i].dy) <= Tolerance,
                 attempt)
    ELSE position_window_on(attempt + 1, retries, oracle)

\* the loop of lines 91-205 from attempt `attempt` (0-based) on: what it
\* returns and the number of attempts made by then
RECURSIVE position_window_from(_, _, _)
position_window_from(attempt, retries, oracle) ==
    IF attempt >= retries
    THEN Returns(FALSE, attempt)                          \* line 205
    ELSE LET o == oracle[attempt + 1]
         IN  IF o.raises \in OsCalls
             THEN IF attempt < retries - 1                \* line 198
                  THEN position_window_from(attempt + 1, retries, oracle)
                  ELSE Returns(FALSE, attempt + 1)        \* line 203
             ELSE IF WithinTolerance(o)                   \* line 191
                  THEN Returns(TRUE, attempt + 1)         \* line 192
                  ELSE position_window_from(attempt + 1, retries, oracle)

position_window(retries, oracle) ==
    position_window_from(0, retries, oracle).ok

\* Lines 147-160: whether the window is top-most after an attempt with
\* outcome o, given whether it was before.  The SetWindowPos of line 147
\* makes it top-most when it returns and the one of line 155 demotes it when
\* it returns; a call that raises changes nothing.
TopmostAfter(before, o) ==
    IF o.raises = "SetPosNoTopmost" THEN TRUE
    ELSE IF \E k \in DOMAIN CallsMade(o) : CallsMade(o)[k] = "SetPosNoTopmost"
         THEN FALSE
    ELSE before

\* whether the window is top-most after the first `made' attempts of a call
\* on a window that was not top-most
RECURSIVE LeftTopmost(_, _)
LeftTopmost(made, oracle) ==
    IF made = 0
    THEN FALSE
    ELSE TopmostAfter(LeftTopmost(made - 1, oracle), oracle[made])

\* Every result position_window can give, over all the OS can do in its
\* attempts (on a handle whose window has died, every attempt raises).
Oracles == [1..Retries -> AttemptOutcomes]
PlaceResults == {position_window(Retries, o) : o \in Oracles}

----------------------------------------------------------------------------
(* self.lock, a threading.Lock: `with self.lock` blocks until it is free *)

\* a lock that its holder keeps when it leaves the with block
KeptBy(t) == t

\* the lock when thread t leaves its `with self.lock` block, by a return or
\* by an exception
ReleasedBy(t) == Free

\* a lock that lets every thread in
CanAcquireAlways(t) == TRUE

CanAcquire(t) == lock = Free

----------------------------------------------------------------------------
(* The placement loop, lines 227-248 and 391-406 *)

\* `window_idx in self.window_handles`: the keys are the integers 1..4
HasHandle(window_idx) ==
    IsInt(window_idx) /\ Idx(window_idx) \in DOMAIN window_handles

\* the slots counted from the right
SlotRectReversed(i) == positions[4 - i]

\* the rectangle of slot pos_idx (0-based): self.positions[pos_idx]
SlotRect(i) == positions[i + 1]

\* the handle looked up for window_idx: self.window_handles[window_idx]
HandleOf(window_idx) == window_handles[Idx(window_idx)]

\* a loop that a failed placement ends
PlaceSlotAborting(t, window_idx) ==
    /\ IF HasHandle(window_idx)
       THEN /\ \E ok \in PlaceResults :
                 /\ success_count' =
                        [success_count EXCEPT ![t] = IF ok THEN @ + 1 ELSE @]
                 /\ pos_idx' = [pos_idx EXCEPT ![t] = IF ok THEN @ + 1 ELSE 4]
                 /\ calls' = Append(calls,
                        [by |-> t, slot |-> pos_idx[t],
                         hwnd |-> HandleOf(window_idx),
                         rect |-> SlotRect(pos_idx[t])])
                 /\ last_ok' = ok
            /\ any_call' = TRUE
       ELSE /\ pos_idx' = [pos_idx EXCEPT ![t] = @ + 1]
            /\ UNCHANGED <<success_count, calls, any_call, last_ok>>
    /\ UNCHANGED pass_by

\* one round of the loop of thread t: slot pos_idx[t] gets the window named
\* by window_idx, if that window has a handle
PlaceSlot(t, window_idx) ==
    /\ pos_idx' = [pos_idx EXCEPT ![t] = @ + 1]
    /\ IF HasHandle(window_idx)
       THEN /\ \E ok \in PlaceResults :
                 /\ success_count' =
                        [success_count EXCEPT ![t] = IF ok THEN @ + 1 ELSE @]
                 /\ calls' = Append(calls,
                        [by |-> t, slot |-> pos_idx[t],
                         hwnd |-> HandleOf(window_idx),
                         rect |-> SlotRect(pos_idx[t])])
                 /\ last_ok' = ok
            /\ any_call' = TRUE
       ELSE UNCHANGED <<success_count, calls, any_call, last_ok>>
    /\ UNCHANGED pass_by

----------------------------------------------------------------------------
(* position_all_windows, lines 207-250, run by the main thread *)

NoPrev == [order |-> <<>>, handles |-> NoWindows, calls |-> <<>>]

\* what a log of position_window calls says of where each window was sent
Targets(log) ==
    [i \in DOMAIN log |->
        [slot |-> log[i].slot, hwnd |-> log[i].hwnd, rect |-> log[i].rect]]

Ended(fn, value) == [fn |-> fn, value |-> value]

\* line 217: `with self.lock`
PosAllLock ==
    /\ pc[Main] = "pa_lock"
    /\ CanAcquire(Main)
    /\ lock' = Main
    /\ pc' = [pc EXCEPT ![Main] = "pa_clear"]
    /\ UNCHANGED <<window_handles, current_order, mainVars, httpVars,
                   passVars, passLog, mainLog, idemLog>>
    /\ UNCHANGED <<enum, pw, last_ok, poll, had, reordered>>

\* line 219: self.window_handles = {}
PosAllClear ==
    /\ pc[Main] = "pa_clear"
    /\ window_handles' = NoWindows
    /\ calls' = <<>>
    /\ pass_by' = Main
    /\ last_arg' = <<>>
    /\ prev' = NoPrev
    /\ repeat' = FALSE
    /\ pc' = [pc EXCEPT ![Main] = "pa_store"]
    /\ UNCHANGED <<current_order, lock, mainVars, httpVars, passVars,
                   any_call, mainLog>>
    /\ had' = DOMAIN window_handles
    /\ last_ok' = FALSE
    /\ UNCHANGED <<enum, pw, poll, reordered>>

\* lines 220-222: the handle of every key of `found`, under its 1-based index
StoredHandles(found) ==
    [i \in {j \in Roles : window_keys[j] \in DOMAIN found} |->
        found[window_keys[i]]]

\* lines 220-224
PosAllStore ==
    /\ pc[Main] = "pa_store"
    /\ window_handles' = StoredHandles(windows)
    /\ success_count' = [success_count EXCEPT ![Main] = 0]
    /\ pos_idx' = [pos_idx EXCEPT ![Main] = 0]
    /\ windows' = NoWindows
    /\ detected' = TRUE
    /\ pc' = [pc EXCEPT ![Main] = "pa_place"]
    /\ UNCHANGED <<current_order, lock, last_count, ticks, caller, returned,
                   httpVars, passLog, saw_all, idemLog>>
    /\ UNCHANGED <<enum, pw, last_ok, poll, had, reordered>>

\* lines 227-248
PosAllPlace ==
    /\ pc[Main] = "pa_place"
    /\ pos_idx[Main] < Len(current_order)
    /\ PlaceSlot(Main, current_order[pos_idx[Main] + 1])
    /\ UNCHANGED <<shared, pc, mainVars, httpVars, mainLog, idemLog>>
    /\ UNCHANGED <<enum, pw, poll, had, reordered>>

\* line 250, and what the caller makes of the count: wait_and_position goes
\* on to its summary, manual_position returns success > 0 (lines 349-354)
PosAllReturn ==
    /\ pc[Main] = "pa_place"
    /\ pos_idx[Main] >= Len(current_order)
    /\ lock' = ReleasedBy(Main)
    /\ IF caller = "wait"
       THEN /\ pc' = [pc EXCEPT ![Main] = "wp_after"]
            /\ UNCHANGED returned
       ELSE /\ pc' = [pc EXCEPT ![Main] = "main_idle"]
            /\ returned' = Ended("manual_position",
                   IF success_count[Main] > 0 THEN "True" ELSE "False")
    /\ success_count' = [success_count EXCEPT ![Main] = 0]
    /\ pos_idx' = [pos_idx EXCEPT ![Main] = 0]
    /\ UNCHANGED <<window_handles, current_order, windows, last_count, ticks,
                   caller, httpVars, passLog, mainLog, idemLog>>
    /\ had' = {}
    /\ last_ok' = FALSE
    /\ UNCHANGED <<enum, pw, poll, reordered>>

----------------------------------------------------------------------------
(* wait_and_position, lines 252-328, and manual_position, lines 330-354 *)

\* a loop that is content with two windows
AllFoundTwo(found) == Count(found) >= 2

Polled(visible, keys) == [visible |-> visible, keys |-> keys]
NoPoll == Polled({}, {})

\* the test of line 283
AllFound(found) == Count(found) >= 4

\* lines 269-313, one round of the loop: enumerate, report progress, and
\* either go on to the placement pass or sleep check_interval
WaitPoll(visible) ==
    /\ pc[Main] = "wp_loop"
    /\ ticks < MaxPolls
    /\ LET found == find_unreal_windows(Shown(visible))
       IN  /\ saw_all' = (saw_all \/ Count(found) >= 4)
           /\ IF AllFound(found)
              THEN /\ windows' = found
                   /\ caller' = "wait"
                   /\ pc' = [pc EXCEPT ![Main] = "pa_lock"]
                   /\ last_count' = 0
                   /\ ticks' = 0
              ELSE /\ last_count' = Count(found)
                   /\ ticks' = ticks + 1
                   /\ UNCHANGED <<windows, caller, pc>>
    /\ UNCHANGED <<shared, returned, httpVars, passVars, passLog, idemLog,
                   detected>>
    /\ poll' = Polled(visible, DOMAIN find_unreal_windows(Shown(visible)))
    /\ UNCHANGED <<enum, pw, last_ok, had, reordered>>

\* line 278: the progress report reads the title of every window found,
\* outside any try; a window found by the enumeration has died since and
\* GetWindowText raises out of wait_and_position
WaitPollRaises(visible) ==
    /\ pc[Main] = "wp_loop"
    /\ ticks < MaxPolls
    /\ LET found == find_unreal_windows(Shown(visible))
       IN  /\ Count(found) # last_count
           /\ Count(found) > 0
           /\ saw_all' = (saw_all \/ Count(found) >= 4)
    /\ returned' = Ended("wait_and_position", "raised")
    /\ pc' = [pc EXCEPT ![Main] = "main_raised"]
    /\ last_count' = 0
    /\ ticks' = 0
    /\ UNCHANGED <<shared, windows, caller, httpVars, passVars, passLog,
                   idemLog, detected>>
    /\ poll' = NoPoll
    /\ UNCHANGED <<enum, pw, last_ok, had, reordered>>

\* lines 269 and 315-328: the timeout has elapsed, return False
WaitTimeout ==
    /\ pc[Main] = "wp_loop"
    /\ ticks >= MaxPolls
    /\ returned' = Ended("wait_and_position", "False")
    /\ pc' = [pc EXCEPT ![Main] = "main_idle"]
    /\ last_count' = 0
    /\ ticks' = 0
    /\ UNCHANGED <<shared, windows, caller, httpVars, passVars, passLog,
                   mainLog, idemLog>>
    /\ poll' = NoPoll
    /\ UNCHANGED <<enum, pw, last_ok, had, reordered>>

\* lines 293-310: the summary (line 305 prints self.current_order, with the
\* lock released), return True
WaitAfter ==
    /\ pc[Main] = "wp_after"
    /\ returned' = Ended("wait_and_position", "True")
    /\ pc' = [pc EXCEPT ![Main] = "main_idle"]
    /\ UNCHANGED <<shared, windows, last_count, ticks, caller, httpVars,
                   passVars, passLog, mainLog, idemLog>>
    /\ UNCHANGED <<enum, pw, last_ok, poll, had, reordered>>

\* lines 334-347: a manual re-trigger; with no window found it returns False
ManualPosition(visible) ==
    /\ pc[Main] = "main_idle"
    /\ LET found == find_unreal_windows(Shown(visible))
       IN  IF Count(found) = 0
           THEN /\ returned' = Ended("manual_position", "False")
                /\ UNCHANGED <<windows, caller, pc>>
           ELSE /\ windows' = found
                /\ caller' = "manual"
                /\ pc' = [pc EXCEPT ![Main] = "pa_lock"]
                /\ UNCHANGED returned
    /\ UNCHANGED <<shared, last_count, ticks, httpVars, passVars, passLog,
                   mainLog, idemLog>>
    /\ UNCHANGED <<enum, pw, last_ok, poll, had, reordered>>

\* line 343: GetWindowText outside any try, on a window that has died
ManualPositionRaises(visible) ==
    /\ pc[Main] = "main_idle"
    /\ Count(find_unreal_windows(Shown(visible))) > 0
    /\ returned' = Ended("manual_position", "raised")
    /\ UNCHANGED <<shared, pc, windows, last_count, ticks, caller, httpVars,
                   passVars, passLog, mainLog, idemLog>>
    /\ UNCHANGED <<enum, pw, last_ok, poll, had, reordered>>

----------------------------------------------------------------------------
(* The HTTP control surface: create_http_server, lines 438-505 *)

\* JSON bodies of POST /reorder: without an "order" field ("missing"), with
\* an "order" that has no len() (a number, null: "scalar"), or with a list
\* of numbers (tenths)
Perms ==
    {o \in [1..4 -> {Num(r) : r \in Roles}] :
        \A i, j \in 1..4 : i # j => o[i] # o[j]}
Malformed ==
    { <<>>, <<Num(1), Num(2), Num(3)>>,
      <<Num(1), Num(2), Num(3), Num(4), Num(1)>>,
      <<Num(0), Num(2), Num(3), Num(4)>>,
      <<Num(1), Num(2), Num(3), Num(5)>>,
      <<Num(1), Num(2), Num(2), Num(3)>>,
      <<Num(1), Num(2), Num(2), Num(5)>>,
      <<Num(4), Num(4), Num(4), Num(4)>>,
      <<Num(1), Num(2), Num(2)>>,
      <<Num(0), Num(5), Num(5)>> }
Fractional == { <<15, Num(2), Num(3), Num(4)>> }
ListBody(items) == [kind |-> "list", items |-> items]
Bodies ==
    {[kind |-> "missing", items |-> <<>>], [kind |-> "scalar", items |-> <<>>]}
    \cup {ListBody(o) : o \in Perms \cup Malformed \cup Fractional}

Response(code, success, message, order, n) ==
    [code |-> code, success |-> success, message |-> message,
     order |-> order, n |-> n]
NoResp == Response(0, FALSE, "", <<>>, 0)
NoReq == [kind |-> "none", items |-> <<>>]

MsgLength == "Order must contain exactly 4 values"
MsgRange == "All values must be between 1 and 4"
MsgUnique == "All values must be unique"
MsgNoWindows == "No windows found. Start the game first."
MsgMissing == "Missing 'order' field in JSON body"
MsgDone == "Successfully reordered to new_order"
MsgPartial == "Only positioned success_count/4 windows"

\* a validation without the test for duplicates
ValidateNoUnique(body) ==
    IF body.kind = "scalar" THEN "raise"
    ELSE IF Len(body.items) # 4 THEN MsgLength
    ELSE IF ~ \A i \in DOMAIN body.items :
                  Num(1) <= body.items[i] /\ body.items[i] <= Num(4)
         THEN MsgRange
    ELSE "ok"

\* a validation that tests for duplicates before it tests the range
ValidateUniqueFirst(body) ==
    IF body.kind = "scalar" THEN "raise"
    ELSE IF Len(body.items) # 4 THEN MsgLength
    ELSE IF Cardinality(Range(body.items)) # 4 THEN MsgUnique
    ELSE IF ~ \A i \in DOMAIN body.items :
                  Num(1) <= body.items[i] /\ body.items[i] <= Num(4)
         THEN MsgRange
    ELSE "ok"

\* lines 369-376 of reorder_windows: the message of the first check that
\* fails, "raise" when len() raises, "ok" when all three checks pass
Validate(body) ==
    IF body.kind = "scalar" THEN "raise"
    ELSE IF Len(body.items) # 4 THEN MsgLength
    ELSE IF ~ \A i \in DOMAIN body.items :
                  Num(1) <= body.items[i] /\ body.items[i] <= Num(4)
         THEN MsgRange
    ELSE IF Cardinality(Range(body.items)) # 4 THEN MsgUnique
    ELSE "ok"

\* reorder(), lines 456-475: the status code for a result of
\* reorder_windows
StatusCode(success) == IF success THEN 200 ELSE 400

\* reorder(), lines 456-475, up to the end of the validation in
\* reorder_windows, lines 369-376
Reorder(t, body) ==
    /\ pc[t] = "idle"
    /\ req' = [req EXCEPT ![t] = body]
    /\ IF body.kind = "missing"
       THEN /\ resp' = [resp EXCEPT ![t] =
                   Response(400, FALSE, MsgMissing, <<>>, 0)]
            /\ pc' = [pc EXCEPT ![t] = "responded"]
            /\ UNCHANGED new_order
       ELSE IF Validate(body) = "raise"
       THEN /\ resp' = [resp EXCEPT ![t] =
                   Response(500, FALSE, "Error", <<>>, 0)]
            /\ pc' = [pc EXCEPT ![t] = "responded"]
            /\ UNCHANGED new_order
       ELSE IF Validate(body) # "ok"
       THEN /\ resp' = [resp EXCEPT ![t] =
                   Response(StatusCode(FALSE), FALSE, Validate(body), <<>>, 0)]
            /\ pc' = [pc EXCEPT ![t] = "responded"]
            /\ UNCHANGED new_order
       ELSE /\ new_order' = [new_order EXCEPT ![t] = body.items]
            /\ pc' = [pc EXCEPT ![t] = "rw_check"]
            /\ UNCHANGED resp
    /\ UNCHANGED <<shared, mainVars, changed, passVars, passLog, mainLog,
                   idemLog>>
    /\ UNCHANGED <<enum, pw, last_ok, poll, had, reordered>>

\* a test that never finds the map empty
NoHandlesNever == FALSE

\* line 378: `not self.window_handles`
NoHandles == DOMAIN window_handles = {}

\* lines 378-379, before the lock is taken
ReorderCheck(t) ==
    /\ pc[t] = "rw_check"
    /\ IF NoHandles
       THEN /\ resp' = [resp EXCEPT ![t] =
                   Response(StatusCode(FALSE), FALSE, MsgNoWindows, <<>>, 0)]
            /\ pc' = [pc EXCEPT ![t] = "responded"]
            /\ new_order' = [new_order EXCEPT ![t] = <<>>]
       ELSE /\ pc' = [pc EXCEPT ![t] = "rw_lock"]
            /\ UNCHANGED <<resp, new_order>>
    /\ UNCHANGED <<shared, mainVars, req, changed, passVars, passLog, mainLog,
                   idemLog>>
    /\ UNCHANGED <<enum, pw, last_ok, poll, had, reordered>>

\* line 381: `with self.lock`
ReorderLock(t) ==
    /\ pc[t] = "rw_lock"
    /\ CanAcquire(t)
    /\ lock' = t
    /\ pc' = [pc EXCEPT ![t] = "rw_set"]
    /\ UNCHANGED <<window_handles, current_order, mainVars, httpVars,
                   passVars, passLog, mainLog, idemLog>>
    /\ UNCHANGED <<enum, pw, last_ok, poll, had, reordered>>

\* lines 382-388.  The log notes whether this pass has the new_order of a
\* reorder pass directly before it, and then what that pass left.
\* an order applied on top of the order in force
WrittenOrderComposed(t) ==
    [i \in 1..4 |-> current_order[Idx(new_order[t][i])]]

\* an order that is never written
WrittenOrderKept(t) == current_order

\* line 382: self.current_order = new_order
WrittenOrder(t) == new_order[t]

ReorderSet(t) ==
    /\ pc[t] = "rw_set"
    /\ current_order' = WrittenOrder(t)
    /\ changed' = [changed EXCEPT ![t] = (current_order' # current_order)]
    /\ success_count' = [success_count EXCEPT ![t] = 0]
    /\ pos_idx' = [pos_idx EXCEPT ![t] = 0]
    /\ repeat' = (last_arg = new_order[t])
    /\ prev' = IF last_arg = new_order[t]
                THEN [order |-> current_order, handles |-> window_handles,
                      calls |-> Targets(calls)]
                ELSE NoPrev
    /\ last_arg' = new_order[t]
    /\ calls' = <<>>
    /\ pass_by' = t
    /\ pc' = [pc EXCEPT ![t] = "rw_place"]
    /\ UNCHANGED <<window_handles, lock, mainVars, new_order, resp, req,
                   any_call, mainLog>>
    /\ reordered' = TRUE
    /\ last_ok' = FALSE
    /\ UNCHANGED <<enum, pw, poll, had>>

\* lines 391-406
ReorderPlace(t) ==
    /\ pc[t] = "rw_place"
    /\ pos_idx[t] < Len(new_order[t])
    /\ PlaceSlot(t, new_order[t][pos_idx[t] + 1])
    /\ UNCHANGED <<shared, pc, mainVars, httpVars, mainLog, idemLog>>
    /\ UNCHANGED <<enum, pw, poll, had, reordered>>

\* a result that calls three windows out of four a success
PassResultLenient(order, count) ==
    IF count >= 3
    THEN [code |-> 200, success |-> TRUE, message |-> MsgDone,
          order |-> order, n |-> count]
    ELSE [code |-> 400, success |-> FALSE, message |-> MsgPartial,
          order |-> order, n |-> count]

\* lines 410-421: the result of reorder_windows after its pass
PassResult(order, count) ==
    IF count = 4
    THEN Response(StatusCode(TRUE), TRUE, MsgDone, order, count)
    ELSE Response(StatusCode(FALSE), FALSE, MsgPartial, order, count)

\* lines 408-421, and lines 468-469 of reorder()
ReorderReturn(t) ==
    /\ pc[t] = "rw_place"
    /\ pos_idx[t] >= Len(new_order[t])
    /\ lock' = ReleasedBy(t)
    /\ resp' = [resp EXCEPT ![t] = PassResult(new_order[t], success_count[t])]
    /\ new_order' = [new_order EXCEPT ![t] = <<>>]
    /\ success_count' = [success_count EXCEPT ![t] = 0]
    /\ pos_idx' = [pos_idx EXCEPT ![t] = 0]
    /\ pc' = [pc EXCEPT ![t] = "responded"]
    /\ UNCHANGED <<window_handles, current_order, mainVars, req, changed,
                   passLog, mainLog, idemLog>>
    /\ last_ok' = FALSE
    /\ UNCHANGED <<enum, pw, poll, had, reordered>>

\* status(), lines 477-486, calls get_status
Status(t) ==
    /\ pc[t] = "idle"
    /\ req' = [req EXCEPT ![t] = [kind |-> "status", items |-> <<>>]]
    /\ pc' = [pc EXCEPT ![t] = "gs_lock"]
    /\ UNCHANGED <<shared, mainVars, new_order, resp, changed, passVars,
                   passLog, mainLog, idemLog>>
    /\ UNCHANGED <<enum, pw, last_ok, poll, had, reordered>>

\* line 425: `with self.lock`
StatusLock(t) ==
    /\ pc[t] = "gs_lock"
    /\ CanAcquire(t)
    /\ lock' = t
    /\ pc' = [pc EXCEPT ![t] = "gs_read"]
    /\ UNCHANGED <<window_handles, current_order, mainVars, httpVars,
                   passVars, passLog, mainLog, idemLog>>
    /\ UNCHANGED <<enum, pw, last_ok, poll, had, reordered>>

\* a status that takes all four windows as found
get_status_of_four == Response(200, TRUE, "status", current_order, 4)

\* lines 426-435
get_status ==
    Response(200, TRUE, "status", current_order,
             Cardinality(DOMAIN window_handles))

StatusRead(t) ==
    /\ pc[t] = "gs_read"
    /\ resp' = [resp EXCEPT ![t] = get_status]
    /\ lock' = ReleasedBy(t)
    /\ pc' = [pc EXCEPT ![t] = "responded"]
    /\ UNCHANGED <<window_handles, current_order, mainVars, new_order, req,
                   changed, passVars, passLog, mainLog, idemLog>>
    /\ UNCHANGED <<enum, pw, last_ok, poll, had, reordered>>

\* health(), lines 488-491
Health(t) ==
    /\ pc[t] = "idle"
    /\ resp' = [resp EXCEPT ![t] = Response(200, TRUE, "ok", <<>>, 0)]
    /\ req' = [req EXCEPT ![t] = [kind |-> "health", items |-> <<>>]]
    /\ pc' = [pc EXCEPT ![t] = "responded"]
    /\ UNCHANGED <<shared, mainVars, new_order, changed, passVars, passLog,
                   mainLog, idemLog>>
    /\ UNCHANGED <<enum, pw, last_ok, poll, had, reordered>>

\* the response has gone out; the thread serves the next request
Close(t) ==
    /\ pc[t] = "responded"
    /\ resp' = [resp EXCEPT ![t] = NoResp]
    /\ req' = [req EXCEPT ![t] = NoReq]
    /\ changed' = [changed EXCEPT ![t] = FALSE]
    /\ pc' = [pc EXCEPT ![t] = "idle"]
    /\ UNCHANGED <<shared, mainVars, new_order, passVars, passLog, mainLog,
                   idemLog>>
    /\ UNCHANGED <<enum, pw, last_ok, poll, had, reordered>>

----------------------------------------------------------------------------
(* The program: the main thread, two request threads and the requests of a
   small set of bodies *)

NoCall ==
    [state |-> "none", retries |-> 0, oracle |-> <<>>, ok |-> FALSE,
     made |-> 0, trace |-> <<>>, topmost |-> FALSE]

NoEnum == [state |-> "none", desktop |-> <<>>, found |-> NoWindows]

Init ==
    /\ last_ok = FALSE
    /\ poll = NoPoll
    /\ had = {}
    /\ reordered = FALSE
    /\ pw = NoCall
    /\ enum = NoEnum
    /\ window_handles = NoWindows
    /\ current_order = DefaultOrder
    /\ lock = Free
    /\ pc = [t \in Threads |-> IF t = Main THEN "wp_loop" ELSE "idle"]
    /\ windows = NoWindows
    /\ last_count = 0
    /\ ticks = 0
    /\ caller = "wait"
    /\ returned = Ended("none", "none")
    /\ new_order = [t \in Http |-> <<>>]
    /\ pos_idx = [t \in Threads |-> 0]
    /\ success_count = [t \in Threads |-> 0]
    /\ resp = [t \in Http |-> NoResp]
    /\ req = [t \in Http |-> NoReq]
    /\ changed = [t \in Http |-> FALSE]
    /\ detected = FALSE
    /\ calls = <<>>
    /\ pass_by = Free
    /\ any_call = FALSE
    /\ saw_all = FALSE
    /\ last_arg = <<>>
    /\ prev = NoPrev
    /\ repeat = FALSE

TestBodies ==
    {ListBody(o) : o \in
        { <<Num(1), Num(2), Num(3), Num(4)>>,
          <<Num(1), Num(2), Num(2), Num(3)>> } \cup Fractional}

MainStep(V) ==
    \/ \E visible \in V : WaitPoll(visible)
    \/ \E visible \in V : WaitPollRaises(visible)
    \/ WaitTimeout
    \/ WaitAfter
    \/ \E visible \in V : ManualPosition(visible)
    \/ \E visible \in V : ManualPositionRaises(visible)
    \/ PosAllLock
    \/ PosAllClear
    \/ PosAllStore
    \/ PosAllPlace
    \/ PosAllReturn

HttpStep(t) ==
    \/ ReorderCheck(t)
    \/ ReorderLock(t)
    \/ ReorderSet(t)
    \/ ReorderPlace(t)
    \/ ReorderReturn(t)
    \/ Status(t)
    \/ StatusLock(t)
    \/ StatusRead(t)
    \/ Health(t)
    \/ Close(t)

Next ==
    \/ MainStep(TestVisible)
    \/ \E t \in Http : HttpStep(t)
    \/ \E t \in Http, body \in TestBodies : Reorder(t, body)

Spec == Init /\ [][Next]_vars

----------------------------------------------------------------------------
(* The program under fair scheduling.  A thread that holds the lock goes on
   running (its steps are blocked by nothing, position_window ends after at
   most Retries attempts), and a request thread that waits in
   `with self.lock` gets the lock at some time if it is free again and
   again.  No fairness is asked of the arrival of requests or of
   manual_position being called. *)

FairVisible == {{}, Hwnds}

FairBodies == {ListBody(<<Num(1), Num(2), Num(3), Num(4)>>)}

NextFair ==
    \/ MainStep(FairVisible)
    \/ \E t \in Http : HttpStep(t)
    \/ \E t \in Http, body \in FairBodies : Reorder(t, body)

Fairness ==
    /\ WF_vars(PosAllClear \/ PosAllStore \/ PosAllPlace \/ PosAllReturn)
    /\ \A t \in Http :
          /\ WF_vars(ReorderSet(t) \/ ReorderPlace(t) \/ ReorderReturn(t)
                        \/ StatusRead(t))
          /\ SF_vars(ReorderLock(t) \/ StatusLock(t))

SpecFair == Init /\ [][NextFair]_vars /\ Fairness

----------------------------------------------------------------------------
(* The request handler alone: one request thread serving every body, from
   every state a detection can have left (the windows of any visible set
   stored by manual_position, the order any earlier reorder has set), the
   main thread being back in main() *)

\* the calls a pass of thread t logs for an order and a handle map
PassCalls(t, order, handles) ==
    LET Known(i) == IsInt(order[i]) /\ Idx(order[i]) \in DOMAIN handles
        Entry(i) == [by |-> t, slot |-> i - 1,
                     hwnd |-> IF Known(i) THEN handles[Idx(order[i])] ELSE 0,
                     rect |-> positions[i]]
    IN  SelectSeq([i \in 1..Len(order) |-> Entry(i)], LAMBDA c : c.hwnd # 0)

InitReorder ==
    \E visible \in VisibleSets, order \in Perms :
        /\ window_handles = StoredHandles(find_unreal_windows(Shown(visible)))
        /\ current_order = IF visible = {} THEN DefaultOrder ELSE order
        /\ lock = Free
        /\ pc = [t \in Threads |-> IF t = Main THEN "main_idle" ELSE "idle"]
        /\ windows = NoWindows
        /\ last_count = 0
        /\ ticks = 0
        /\ caller = IF visible = {} THEN "wait" ELSE "manual"
        /\ returned = IF visible = {}
                      THEN Ended("wait_and_position", "False")
                      ELSE Ended("manual_position", "True")
        /\ new_order = [t \in Http |-> <<>>]
        /\ pos_idx = [t \in Threads |-> 0]
        /\ success_count = [t \in Threads |-> 0]
        /\ resp = [t \in Http |-> NoResp]
        /\ req = [t \in Http |-> NoReq]
        /\ changed = [t \in Http |-> FALSE]
        /\ detected = (visible # {})
        /\ calls = PassCalls(Main, current_order, window_handles)
        /\ pass_by = IF visible = {} THEN Free ELSE Main
        /\ any_call = (visible # {})
        /\ saw_all = FALSE
        /\ last_arg = <<>>
        /\ prev = NoPrev
        /\ repeat = FALSE
        /\ last_ok = FALSE
        /\ poll = NoPoll
        /\ had = {}
        /\ reordered = (current_order # DefaultOrder)
        /\ pw = NoCall
        /\ enum = NoEnum

NextReorder ==
    \/ HttpStep("h1")
    \/ \E body \in Bodies : Reorder("h1", body)

SpecReorder == InitReorder /\ [][NextReorder]_vars

----------------------------------------------------------------------------
(* The main thread alone, the windowing system showing it any set of the
   four preview windows at every enumeration *)

NextDetect == MainStep(VisibleSets)

SpecDetect == Init /\ [][NextDetect]_vars

----------------------------------------------------------------------------
(* position_window on its own: called with every number of retries up to
   MaxRetries, the OS doing in every attempt any of the things it can do *)

Called(n, o) ==
    [state |-> "called", retries |-> n, oracle |-> o, ok |-> FALSE,
     made |-> 0, trace |-> <<>>, topmost |-> FALSE]

InitPlace ==
    /\ \E n \in 0..MaxRetries :
          \E o \in [1..n -> AttemptOutcomes] : pw = Called(n, o)
    /\ enum = NoEnum
    /\ last_ok = FALSE
    /\ poll = NoPoll
    /\ had = {}
    /\ reordered = FALSE
    /\ window_handles = NoWindows
    /\ current_order = DefaultOrder
    /\ lock = Free
    /\ pc = [t \in Threads |-> IF t = Main THEN "wp_loop" ELSE "idle"]
    /\ windows = NoWindows
    /\ last_count = 0
    /\ ticks = 0
    /\ caller = "wait"
    /\ returned = Ended("none", "none")
    /\ new_order = [t \in Http |-> <<>>]
    /\ pos_idx = [t \in Threads |-> 0]
    /\ success_count = [t \in Threads |-> 0]
    /\ resp = [t \in Http |-> NoResp]
    /\ req = [t \in Http |-> NoReq]
    /\ changed = [t \in Http |-> FALSE]
    /\ detected = FALSE
    /\ calls = <<>>
    /\ pass_by = Free
    /\ any_call = FALSE
    /\ saw_all = FALSE
    /\ last_arg = <<>>
    /\ prev = NoPrev
    /\ repeat = FALSE

\* lines 91-205: the call runs to its return
PositionWindow ==
    /\ pw.state = "called"
    /\ LET r == position_window_from(0, pw.retries, pw.oracle)
       IN  pw' = [pw EXCEPT !.state = "returned", !.ok = r.ok,
                            !.made = r.made,
                            !.trace = [i \in 1..r.made |->
                                          CallsMade(pw.oracle[i])],
                            !.topmost = LeftTopmost(r.made, pw.oracle)]
    /\ UNCHANGED <<shared, pc, mainVars, httpVars, passVars, passLog, mainLog,
                   idemLog, last_ok, poll, had, reordered, enum>>

NextPlace == PositionWindow

SpecPlace == InitPlace /\ [][NextPlace]_vars

----------------------------------------------------------------------------
(* find_unreal_windows on its own: one call on a desktop of at most
   MaxWindows windows of `Windows', each visible or hidden, in every order
   of enumeration *)

Desktops ==
    {d \in UNION {[1..n -> [hwnd : Windows, visible : BOOLEAN]] :
                     n \in 0..MaxWindows} :
        \A i, j \in DOMAIN d : d[i].hwnd = d[j].hwnd => i = j}

Enumerating(d) == [state |-> "called", desktop |-> d, found |-> NoWindows]

InitClassify ==
    /\ \E d \in Desktops : enum = Enumerating(d)
    /\ pw = NoCall
    /\ last_ok = FALSE
    /\ poll = NoPoll
    /\ had = {}
    /\ reordered = FALSE
    /\ window_handles = NoWindows
    /\ current_order = DefaultOrder
    /\ lock = Free
    /\ pc = [t \in Threads |-> IF t = Main THEN "wp_loop" ELSE "idle"]
    /\ windows = NoWindows
    /\ last_count = 0
    /\ ticks = 0
    /\ caller = "wait"
    /\ returned = Ended("none", "none")
    /\ new_order = [t \in Http |-> <<>>]
    /\ pos_idx = [t \in Threads |-> 0]
    /\ success_count = [t \in Threads |-> 0]
    /\ resp = [t \in Http |-> NoResp]
    /\ req = [t \in Http |-> NoReq]
    /\ changed = [t \in Http |-> FALSE]
    /\ detected = FALSE
    /\ calls = <<>>
    /\ pass_by = Free
    /\ any_call = FALSE
    /\ saw_all = FALSE
    /\ last_arg = <<>>
    /\ prev = NoPrev
    /\ repeat = FALSE

\* lines 46-76: the call runs to its return
FindUnrealWindows ==
    /\ enum.state = "called"
    /\ enum' = [enum EXCEPT !.state = "returned",
                            !.found = find_unreal_windows(enum.desktop)]
    /\ UNCHANGED <<shared, pc, mainVars, httpVars, passVars, passLog, mainLog,
                   idemLog, last_ok, poll, had, reordered, pw>>

NextClassify == FindUnrealWindows

SpecClassify == InitClassify /\ [][NextClassify]_vars

----------------------------------------------------------------------------
(* Properties *)

RoleNumbers == {Num(r) : r \in Roles}

IsPassResponse(r) == r.message \in {MsgDone, MsgPartial}
IsValidationFailure(r) ==
    r.message \in {MsgLength, MsgRange, MsgUnique, MsgNoWindows}

\* thread t has answered reorder(p) for a permutation p of the roles
AnswersPerm(t) ==
    pc[t] = "responded" /\ req[t].kind = "list" /\ req[t].items \in Perms

\* a list that the specification calls malformed: its length is not 4, a
\* value lies outside 1..4, or a value occurs twice
IsMalformed(items) ==
    \/ Len(items) # 4
    \/ \E i \in DOMAIN items : items[i] < Num(1) \/ items[i] > Num(4)
    \/ \E i, j \in DOMAIN items : i # j /\ items[i] = items[j]

\* thread t is inside the locked region of a placement pass
InPass(t) ==
    pc[t] \in {"pa_clear", "pa_store", "pa_place", "rw_set", "rw_place"}

\* the latest placement pass has run to its end
PassDone == pass_by \in Threads /\ pc[pass_by] \notin {"pa_place", "rw_place"}

\* C1: in every reachable state current_order is a sequence of exactly four
\* distinct values from 1..4, a permutation of the four roles.
C1_OrderIsPermutation ==
    /\ Len(current_order) = 4
    /\ Range(current_order) = RoleNumbers

\* C2 as stated: reorder(p) for a permutation p either returns success with
\* current_order = p, or fails and has left current_order as it was; it
\* never reports failure with current_order changed.
C2_SuccessOrUnchanged ==
    \A t \in Http :
        AnswersPerm(t) =>
            IF resp[t].success
            THEN current_order = req[t].items
            ELSE IsValidationFailure(resp[t]) /\ ~ changed[t]

\* C2 amended: reorder(p) for a permutation p either fails validation (no
\* handle is known), and then has not changed current_order, or passes
\* validation, and then status().current_order = p when it returns, with
\* success reported exactly when all four windows were placed.
C2_PassedOrUnchanged ==
    \A t \in Http :
        AnswersPerm(t) =>
            IF IsValidationFailure(resp[t])
            THEN /\ resp[t].message = MsgNoWindows
                 /\ ~ resp[t].success
                 /\ ~ changed[t]
            ELSE /\ IsPassResponse(resp[t])
                 /\ resp[t].order = req[t].items
                 /\ get_status.order = req[t].items
                 /\ resp[t].success <=> resp[t].n = 4

C2_FailureWithOrderChanged ==
    \E t \in Http :
        /\ AnswersPerm(t)
        /\ resp[t].message = MsgPartial
        /\ changed[t]
        /\ current_order = req[t].items

\* C3: a reorder whose list has a length other than 4, a value outside 1..4
\* or a duplicate is answered in one step with success = false (400), and
\* that step leaves current_order and window_handles as they were and calls
\* position_window for no window.
C3_MalformedRejected ==
    [][\A t \in Http :
          (pc[t] = "idle" /\ req'[t].kind = "list"
              /\ IsMalformed(req'[t].items)) =>
             /\ pc'[t] = "responded"
             /\ resp'[t].success = FALSE
             /\ resp'[t].code = 400
             /\ IsValidationFailure(resp'[t])
             /\ UNCHANGED <<window_handles, current_order, calls, pass_by,
                            any_call>>]_vars

C3_DuplicateAnswered ==
    \E t \in Http :
        /\ pc[t] = "responded"
        /\ req[t] = ListBody(<<Num(1), Num(2), Num(2), Num(3)>>)
        /\ resp[t].message = MsgUnique
        /\ DOMAIN window_handles # {}

\* C4: at most one thread is inside a placement pass at any moment, and the
\* position_window calls logged for a pass are all calls of the one thread
\* that runs it.
C4_OnePassAtATime ==
    /\ \A t1, t2 \in Threads : InPass(t1) /\ InPass(t2) => t1 = t2
    /\ \A i \in DOMAIN calls : calls[i].by = pass_by

C4_PassWhileOthersWait ==
    /\ pc["h1"] = "rw_place"
    /\ Len(calls) >= 1
    /\ pc["h2"] = "rw_lock"
    /\ pc[Main] = "pa_lock"

\* C5: a thread that is about to read or write window_handles or
\* current_order holds the lock.
C5_AccessUnderLock ==
    \A t \in Threads :
        pc[t] \in {"pa_clear", "pa_store", "pa_place", "wp_after",
                   "rw_check", "rw_set", "rw_place", "gs_read"}
            => lock = t

\* C6: a reorder with a permutation, answered while no handle has ever been
\* stored, is rejected ("No windows found", 400), has changed nothing, and
\* no window has been placed.
C6_RejectedBeforeDetection ==
    \A t \in Http :
        (AnswersPerm(t) /\ ~ detected) =>
            /\ resp[t] = Response(400, FALSE, MsgNoWindows, <<>>, 0)
            /\ ~ changed[t]
            /\ current_order = DefaultOrder
            /\ window_handles = NoWindows
            /\ calls = <<>>
            /\ ~ any_call

C6_AnsweredBeforeDetection ==
    \E t \in Http :
        /\ AnswersPerm(t)
        /\ ~ detected
        /\ resp[t].message = MsgNoWindows

\* C7: a reorder that passed validation reports success (200) exactly when
\* its pass counted four placed windows, and otherwise failure (400) with
\* the count; a validation failure is answered 400 and an exception 500.
C7_ResultAndStatus ==
    \A t \in Http :
        (pc[t] = "responded" /\ req[t].kind \in {"list", "scalar", "missing"})
        =>
            IF req[t].kind = "scalar"
            THEN resp[t].code = 500 /\ ~ resp[t].success
            ELSE IF IsPassResponse(resp[t])
            THEN /\ resp[t].success <=> resp[t].n = 4
                 /\ resp[t].success <=> resp[t].message = MsgDone
                 /\ resp[t].code = IF resp[t].success THEN 200 ELSE 400
                 /\ resp[t].n \in 0..4
            ELSE /\ IsValidationFailure(resp[t]) \/ resp[t].message = MsgMissing
                 /\ resp[t].code = 400
                 /\ ~ resp[t].success

C7_ThreeOfFour ==
    \E t \in Http :
        /\ pc[t] = "responded"
        /\ resp[t].message = MsgPartial
        /\ resp[t].n = 3
        /\ resp[t].code = 400
        /\ Cardinality(DOMAIN window_handles) = 4

\* C8: when reorder(p) has run directly after reorder(p), current_order,
\* window_handles and the slot rectangle every handle was sent to are what
\* the first of the two left.
C8_SecondLeavesTheSame ==
    (repeat /\ PassDone) =>
        /\ current_order = prev.order
        /\ window_handles = prev.handles
        /\ Targets(calls) = prev.calls

C8_RepeatedAfterChange ==
    /\ repeat
    /\ PassDone
    /\ Len(calls) >= 2
    /\ current_order # DefaultOrder
    /\ current_order # <<Num(1), Num(2), Num(3), Num(4)>>

\* C9: every position_window call of a pass sends, to the rectangle of its
\* slot i, the handle stored for the role that position i of the order in
\* force names, which is the window of that role; the slots are served in
\* order, each role with a handle once, and no handle goes to two slots.
\* With all four windows and the order [4,2,3,1], slot 0 gets Client 3,
\* slot 1 Client 1, slot 2 Client 2 and slot 3 the Server.
C9_SlotGetsItsRole ==
    /\ \A i \in DOMAIN calls :
          LET c == calls[i]
              w == current_order[c.slot + 1]
          IN  /\ c.slot \in 0..3
              /\ c.rect = positions[c.slot + 1]
              /\ IsInt(w)
              /\ Idx(w) \in DOMAIN window_handles
              /\ c.hwnd = window_handles[Idx(w)]
              /\ KeyOf(c.hwnd) = window_keys[Idx(w)]
    /\ \A i, j \in DOMAIN calls :
          i < j => calls[i].slot < calls[j].slot
                   /\ calls[i].hwnd # calls[j].hwnd
    /\ PassDone =>
          {calls[i].slot : i \in DOMAIN calls}
              = {i \in 0..3 : HasHandle(current_order[i + 1])}
    /\ (PassDone /\ current_order = DefaultOrder
            /\ DOMAIN window_handles = Roles) =>
          Targets(calls) =
              << [slot |-> 0, hwnd |-> Hwnd(4), rect |-> <<0, 0, 480, 800>>],
                 [slot |-> 1, hwnd |-> Hwnd(2), rect |-> <<480, 0, 480, 800>>],
                 [slot |-> 2, hwnd |-> Hwnd(3), rect |-> <<960, 0, 480, 800>>],
                 [slot |-> 3, hwnd |-> Hwnd(1),
                  rect |-> <<1440, 0, 480, 800>>] >>

C9_DefaultOrderPlaced ==
    /\ PassDone
    /\ pass_by = Main
    /\ current_order = DefaultOrder
    /\ DOMAIN window_handles = Roles
    /\ Len(calls) = 4

ReadBackNear(i) ==
    /\ pw.oracle[i].raises \notin OsCalls
    /\ pw.oracle[i].dx \in -10..10
    /\ pw.oracle[i].dy \in -10..10

\* C11: when position_window has returned True, the attempt it returned from
\* read the origin back at most 10 units from (x, y) in each axis.
C11_TrueOnlyWithinTolerance ==
    (pw.state = "returned" /\ pw.ok) =>
        /\ pw.made \in 1..pw.retries
        /\ pw.trace[pw.made] = AttemptCalls
        /\ ReadBackNear(pw.made)

C11_TrueAtTheEdge ==
    /\ pw.state = "returned"
    /\ pw.ok
    /\ pw.made = 2
    /\ pw.oracle[1].raises = "none" /\ pw.oracle[1].dx = 0
    /\ pw.oracle[1].dy = 11
    /\ pw.oracle[2].dx = 10 /\ pw.oracle[2].dy = 10

\* C18: position_window returns after at most `retries` attempts: True from
\* the first attempt that read the origin back within tolerance, and False
\* after exactly `retries` attempts when none did, whatever mix of
\* mismatches and raised errors they ended in.
C18_ReturnsWithinRetries ==
    pw.state = "returned" =>
        /\ pw.made \in 0..pw.retries
        /\ pw.ok <=> \E i \in 1..pw.retries : ReadBackNear(i)
        /\ pw.ok => /\ ReadBackNear(pw.made)
                    /\ \A i \in 1..(pw.made - 1) : ~ ReadBackNear(i)
        /\ ~ pw.ok => pw.made = pw.retries

C18_TrueBeforeTheLast ==
    /\ pw.state = "returned"
    /\ pw.ok
    /\ pw.retries = 3
    /\ pw.made = 2
    /\ pw.oracle[1].raises = "SetPosTopmost"
    /\ pw.oracle[3].raises = "none" /\ pw.oracle[3].dx = 0
    /\ pw.oracle[3].dy = 0

\* C20: an attempt in which a call that strips the decoration raised (the
\* style bits, the extended style bits, the forced frame change) still went
\* on to set the geometry and to read the origin back.
C20_StripFailureGoesOn ==
    pw.state = "returned" =>
        \A i \in 1..pw.made :
            pw.oracle[i].raises \in
                {"GetStyle", "SetStyle", "GetExStyle", "SetExStyle",
                 "FrameChanged"}
            => \A c \in {"SetPosTopmost", "SetPosNoTopmost", "GetWindowRect"} :
                   \E k \in DOMAIN pw.trace[i] : pw.trace[i][k] = c

\* thread t goes once round the loop of its placement pass
LoopRound(t) ==
    /\ pc[t] \in {"pa_place", "rw_place"}
    /\ pc'[t] = pc[t]
    /\ <<pos_idx[t], success_count[t], calls>>
           # <<pos_idx'[t], success_count'[t], calls'>>

\* thread t leaves the loop of its placement pass
LoopEnd(t) == pc[t] \in {"pa_place", "rw_place"} /\ pc'[t] # pc[t]

\* C12: every round of the loop of a pass goes on to the next slot, whether
\* the placement of its slot succeeded or failed; a slot whose role has a
\* handle gets its position_window call, and the count goes up by one
\* exactly when that call returned True; the loop ends only after the last
\* slot, and a reorder returns that count.
C12_FailureDoesNotEndThePass ==
    [][\A t \in Threads :
          /\ LoopRound(t) =>
                /\ pos_idx'[t] = pos_idx[t] + 1
                /\ IF HasHandle(current_order[pos_idx[t] + 1])
                   THEN /\ Len(calls') = Len(calls) + 1
                        /\ calls'[Len(calls')].slot = pos_idx[t]
                        /\ success_count'[t] =
                               success_count[t] + IF last_ok' THEN 1 ELSE 0
                   ELSE UNCHANGED <<calls, success_count>>
          /\ LoopEnd(t) =>
                /\ pos_idx[t] = 4
                /\ success_count[t] <= Len(calls)
                /\ t \in Http => resp'[t].n = success_count[t]]_vars

C12_PlacedAfterAFailure ==
    /\ pc[Main] = "pa_place"
    /\ DOMAIN window_handles = Roles
    /\ Len(calls) = 2
    /\ success_count[Main] = 1
    /\ last_ok

\* C13: no operation ends in a fault raised by an OS call on a window that
\* has died: wait_and_position and manual_position end by returning.
C13_NoFaultPropagates ==
    /\ pc[Main] # "main_raised"
    /\ returned.value # "raised"

\* C14: no step of a status request changes current_order or
\* window_handles (or places a window); the step that reads the status holds
\* the lock, so no thread is inside a placement pass, and what it returns is
\* the size of window_handles and current_order as they are at that moment.
C14_StatusIsASnapshot ==
    [][\A t \in Http :
          (req'[t].kind = "status" /\ pc'[t] # pc[t]) =>
              /\ UNCHANGED <<window_handles, current_order, calls, any_call>>
              /\ pc'[t] = "responded" =>
                    /\ lock = t
                    /\ \A u \in Threads : ~ InPass(u)
                    /\ resp'[t].code = 200
                    /\ resp'[t].n = Cardinality(DOMAIN window_handles)
                    /\ resp'[t].order = current_order]_vars

C14_StatusAfterReorder ==
    \E t \in Http :
        /\ pc[t] = "responded"
        /\ req[t].kind = "status"
        /\ resp[t].n = 2
        /\ resp[t].order = <<Num(1), Num(2), Num(3), Num(4)>>
        /\ \E u \in Threads : InPass(u)

\* a round of the loop of wait_and_position that has polled and gone on
PollStep ==
    /\ pc[Main] = "wp_loop"
    /\ \/ pc'[Main] = "wp_loop" /\ ticks' = ticks + 1
       \/ pc'[Main] = "pa_lock"

\* C15: a role that the previous poll of wait_and_position classified is
\* classified by this poll too when its window is still visible, whatever
\* other windows have appeared or gone.
C15_PollKeepsPresentRoles ==
    [][PollStep =>
          \A r \in Roles :
              (window_keys[r] \in poll.keys /\ Hwnd(r) \in poll'.visible)
                  => window_keys[r] \in poll'.keys]_vars

C15_SecondPollOfThree ==
    /\ pc[Main] = "wp_loop"
    /\ ticks = 2
    /\ poll.visible = {Hwnd(1), Hwnd(3), Hwnd(4)}
    /\ poll.keys = {"Server", "Client 2", "Client 3"}

\* C19: wait_and_position, once it is over, has ended in one of two states:
\* it has returned True (Positioned), after a poll that classified all four
\* roles and the pass that followed it, or it has returned False (TimedOut),
\* no poll having classified all four.
C19_EndsPositionedOrTimedOut ==
    /\ pc[Main] \in {"wp_loop", "pa_lock", "pa_clear", "pa_store",
                     "pa_place", "wp_after", "main_idle"}
    /\ returned.fn = "wait_and_position" =>
          /\ returned.value \in {"True", "False"}
          /\ returned.value = "True" <=> saw_all
    /\ (pc[Main] = "wp_after" \/ returned = Ended("wait_and_position", "True"))
          => detected

\* C16: a role that had an entry in window_handles when a detection pass
\* began has an entry once the pass has stored what it was given.
C16_EntriesAreKept ==
    pc[Main] = "pa_place" => had \subseteq DOMAIN window_handles

\* C17: current_order is the default [4,2,3,1] until a reorder has written
\* it, and the only step that changes it is the write of a reorder request
\* whose list has length 4, values within 1..4 and no duplicate, which
\* writes that list.
C17_OnlyReorderWritesTheOrder ==
    /\ [](~ reordered => current_order = DefaultOrder)
    /\ [][current_order' # current_order =>
             \E t \in Http :
                 /\ pc[t] = "rw_set"
                 /\ pc'[t] = "rw_place"
                 /\ lock = t
                 /\ req[t].kind = "list"
                 /\ ~ IsMalformed(req[t].items)
                 /\ current_order' = req[t].items
                 /\ reordered']_vars

C17_OrderKeptByDetection ==
    /\ current_order = <<Num(1), Num(2), Num(3), Num(4)>>
    /\ pass_by = Main
    /\ PassDone
    /\ Len(calls) = 4
    /\ \E t \in Http :
          /\ pc[t] = "responded"
          /\ resp[t].message = MsgUnique

----------------------------------------------------------------------------
(* Classification of window titles *)

\* the windows of the enumerated desktop that are visible and whose title
\* has both markers and at least one role name
Classifiable ==
    {i \in DOMAIN enum.desktop :
        /\ enum.desktop[i].visible
        /\ Title(enum.desktop[i].hwnd).preview
        /\ Title(enum.desktop[i].hwnd).netmode
        /\ Title(enum.desktop[i].hwnd).names # {}}

\* the first of Server, Client 1, Client 2, Client 3 that the title of the
\* i-th window contains
FirstNamed(i) ==
    LET names == Title(enum.desktop[i].hwnd).names
        r == CHOOSE q \in Roles :
                 /\ window_keys[q] \in names
                 /\ \A o \in Roles : window_keys[o] \in names => q <= o
    IN  window_keys[r]

\* C21: the dictionary find_unreal_windows returns has exactly the roles
\* that some visible window with both markers names first (in the order
\* Server, Client 1, Client 2, Client 3); the handle under a role is of such
\* a window, and no handle is under two roles.  A window that is hidden,
\* lacks a marker or names no role is under no role.
C21_ClassifiedByFirstName ==
    enum.state = "returned" =>
        /\ DOMAIN enum.found = {FirstNamed(i) : i \in Classifiable}
        /\ \A k \in DOMAIN enum.found :
              \E i \in Classifiable :
                  /\ FirstNamed(i) = k
                  /\ enum.desktop[i].hwnd = enum.found[k]
        /\ \A k, l \in DOMAIN enum.found :
              enum.found[k] = enum.found[l] => k = l

\* a title with only one marker, a title that names the server and a
\* client, and the window of that client
C21_ServerBeforeClient ==
    /\ enum.state = "returned"
    /\ enum.desktop = << [hwnd |-> 108, visible |-> TRUE],
                         [hwnd |-> 105, visible |-> TRUE],
                         [hwnd |-> Hwnd(2), visible |-> TRUE] >>
    /\ DOMAIN enum.found = {"Server", "Client 1"}
    /\ enum.found["Server"] = 105
    /\ enum.found["Client 1"] = Hwnd(2)

----------------------------------------------------------------------------
(* The order of the checks of a reorder *)

\* the message of the first of the three checks that the list fails, in the
\* order length, range, duplicates
FirstFailing(items) ==
    IF Len(items) # 4 THEN MsgLength
    ELSE IF \E i \in DOMAIN items : items[i] < Num(1) \/ items[i] > Num(4)
         THEN MsgRange
    ELSE MsgUnique

\* C22: a reorder with a malformed list is answered 400 with the message of
\* the first check it fails, in the order length, range, duplicates, whether
\* or not a window has been detected; "No windows found" is the answer only
\* to a list that passes all three.
C22_FirstFailingCheckDecides ==
    \A t \in Http :
        (pc[t] = "responded" /\ req[t].kind = "list") =>
            /\ IsMalformed(req[t].items) =>
                  /\ resp[t].message = FirstFailing(req[t].items)
                  /\ resp[t].code = 400
                  /\ resp[t].success = FALSE
            /\ resp[t].message = MsgNoWindows => ~ IsMalformed(req[t].items)

\* a duplicate is reported while no window has been detected
C22_DuplicateWithNoHandles ==
    /\ DOMAIN window_handles = {}
    /\ \E t \in Http :
          /\ pc[t] = "responded"
          /\ req[t] = ListBody(<<Num(1), Num(2), Num(2), Num(3)>>)
          /\ resp[t].message = MsgUnique
          /\ resp[t].code = 400

----------------------------------------------------------------------------
(* The top-most state of a placed window *)

\* C23: whenever position_window has returned, with True or with False, the
\* window is not top-most.
C23_NotLeftTopmost ==
    pw.state = "returned" => ~ pw.topmost

----------------------------------------------------------------------------
(* A reorder during a detection pass *)

\* C24: once a detection pass has stored a handle and returned, no reorder
\* is answered "No windows found": the step of reorder_windows that gives
\* this answer is never taken while the map held a handle before the
\* detection pass that is running, if one is.
C24_NoRejectionAfterDetection ==
    [][\A t \in Http :
          (/\ pc[t] = "rw_check"
           /\ pc'[t] = "responded"
           /\ resp'[t].message = MsgNoWindows)
          => ~ (detected /\ had # {})]_vars

----------------------------------------------------------------------------
(* The lock is given up *)

\* thread t waits in `with self.lock` of reorder_windows or get_status
Waiting(t) == pc[t] \in {"rw_lock", "gs_lock"}

\* C25: a placement pass calls position_window at most four times, a thread
\* that holds the lock releases it, and a request thread that waits for the
\* lock of reorder_windows or get_status gets to its response.
C25_WaitingIsAnswered ==
    /\ [](Len(calls) <= 4)
    /\ \A t \in Threads : (lock = t) ~> (lock # t)
    /\ \A t \in Http : Waiting(t) ~> (pc[t] = "responded")

\* a reorder and a status request both wait while the detection pass places
\* its last window
C25_TwoWaitDuringAPass ==
    /\ lock = Main
    /\ pc[Main] = "pa_place"
    /\ Len(calls) = 3
    /\ pc["h1"] = "rw_lock"
    /\ pc["h2"] = "gs_lock"

============================================================================
